---- MODULE Spec2Model ----
(***************************************************************************)
(* Texas Hold'em game loop of src/main.cpp: deck and dealing, the turn     *)
(* queue and the four betting rounds, Player::takeAction, showdown,        *)
(* elimination and the merge sort of the roster.                           *)
(*                                                                         *)
(* Array indices are those of the source (from 0); a TLA+ sequence holds   *)
(* element i of the array at position i + 1.                               *)
(***************************************************************************)
EXTENDS Integers, Sequences, FiniteSets, TLC

\* ------------------------------------------------------------ constants
MAX_PLAYERS == 6
MAX_CARDS == 52
NumSuits == 4
NumRanks == 13
\* Player(): every new player starts with 1000 chips.
StartChips == 1000
\* takeAction: the bot's bet, the bluff increment and the strength threshold.
BotBet == 50
BluffAmount == 20
StrengthThreshold == 5
\* evaluateHandStrength: the score of a pair, of three and of four of a kind.
PairScore == 2
TripleScore == 6
QuadScore == 10

\* ------------------------------------------------------------ bounds
\* Hands the user lets the game play before answering 'n' to the continue
\* prompt (SpecHands).
MaxHands == 2
\* The same, when every player only ever checks (SpecPassive).
MaxPassiveHands == 6
\* The largest chip count of the rosters given to mergeSort (SpecSort).
MaxSortChips == 3

\* The highest rank among the cards that hands and boards are drawn from in
\* SpecScore.
MaxScoreRank == 2

\* The furthest rotation of an order among the shuffle outcomes of SpecDeck.
MaxRotate == 3

\* The rosters ranked by the player tree: MaxTreePlayers players at most, each
\* with 0 to MaxTreeChips chips.
MaxTreePlayers == 4
MaxTreeChips == 3

\* ------------------------------------------------------------ cards and deck
\* Card(): the default card, with empty rank and suit.
NoCard == -1
\* Deck::Deck stores Card(ranks[r], suits[s]) at index s * 13 + r: a card is
\* named by that index.
Rank(c) == IF c = NoCard THEN NoCard ELSE c % NumRanks
Suit(c) == IF c = NoCard THEN NoCard ELSE c \div NumRanks

NewDeck == [cards |-> [i \in 1..MAX_CARDS |-> i - 1], topCardIndex |-> 0]

\* std::shuffle leaves some permutation of the 52 cards.  Two of them: the
\* constructor's order, where no two cards of a hand share a rank; and the four
\* cards of each rank together, moved on by one place, where pairs, triples
\* and quads come up and the later seats get the better scores.
ByRank == [i \in 1..MAX_CARDS |-> ((i - 1) % NumSuits) * NumRanks + ((i - 1) \div NumSuits)]
ShuffleOutcomes ==
    { [i \in 1..MAX_CARDS |-> i - 1],
      [i \in 1..MAX_CARDS |-> ByRank[(i % MAX_CARDS) + 1]] }

\* A faulty dealCard for comparison: the cursor moves before the card is read
\* (cards[++topCardIndex]), the read staying inside the array.
dealCardPreIncrement(d) ==
    IF d.topCardIndex < MAX_CARDS
      THEN [card |-> d.cards[IF d.topCardIndex + 2 > MAX_CARDS THEN MAX_CARDS
                                                                ELSE d.topCardIndex + 2],
            deck |-> [d EXCEPT !.topCardIndex = @ + 1],
            threw |-> FALSE]
      ELSE [card |-> NoCard, deck |-> d, threw |-> TRUE]

\* A faulty dealCard for comparison: past the last card it starts again at the
\* first.
dealCardWraps(d) ==
    IF d.topCardIndex < MAX_CARDS
      THEN [card |-> d.cards[d.topCardIndex + 1],
            deck |-> [d EXCEPT !.topCardIndex = @ + 1],
            threw |-> FALSE]
      ELSE [card |-> d.cards[1], deck |-> [d EXCEPT !.topCardIndex = 1], threw |-> FALSE]

\* Deck::dealCard: the card, the deck after it, and whether it threw.
dealCard(d) ==
    IF d.topCardIndex < MAX_CARDS
      THEN [card |-> d.cards[d.topCardIndex + 1],
            deck |-> [d EXCEPT !.topCardIndex = @ + 1],
            threw |-> FALSE]
      ELSE [card |-> NoCard, deck |-> d, threw |-> TRUE]

\* ------------------------------------------------------------ players
Bot == <<"B", "o", "t">>
Ann == <<"A", "n", "n">>
Bea == <<"B", "e", "a">>
Cal == <<"C", "a", "l">>
RoBot == <<"R", "o", "B", "o", "t">>

\* Player(playerName), with the chips a saved game gives it.
NewPlayer(nm, ch) ==
    [name |-> nm, hand |-> <<NoCard, NoCard>>, chips |-> ch, folded |-> FALSE,
     gamesWon |-> 0, handsPlayed |-> 0, handsWon |-> 0]

\* name.find("Bot") != string::npos
IsBot(nm) ==
    \E k \in 1..Len(nm) : k + Len(Bot) - 1 <= Len(nm) /\ SubSeq(nm, k, k + Len(Bot) - 1) = Bot

Min(a, b) == IF a < b THEN a ELSE b

\* Player::evaluateHandStrength: tally the ranks of the visible community
\* cards and of the two hole cards, then score every rank by its count.
RankCount(p, communityCards, communitySize, r) ==
    Cardinality({i \in 1..communitySize : Rank(communityCards[i]) = r})
    + Cardinality({i \in 1..2 : Rank(p.hand[i]) = r})

\* A faulty scoring chain for comparison: the test for a pair is "two or more"
\* and comes first.
CountScoreAtLeast(n) ==
    IF n >= 2 THEN PairScore
    ELSE IF n >= 3 THEN TripleScore
    ELSE IF n >= 4 THEN QuadScore
    ELSE 0

CountScore(n) ==
    IF n = 2 THEN PairScore
    ELSE IF n = 3 THEN TripleScore
    ELSE IF n = 4 THEN QuadScore
    ELSE 0

RECURSIVE ScoreRanks(_, _, _, _)
ScoreRanks(p, communityCards, communitySize, r) ==
    IF r >= NumRanks THEN 0
    ELSE CountScore(RankCount(p, communityCards, communitySize, r))
         + ScoreRanks(p, communityCards, communitySize, r + 1)

evaluateHandStrength(p, communityCards, communitySize) ==
    ScoreRanks(p, communityCards, communitySize, NoCard)

\* ------------------------------------------------------------ takeAction
\* One line of actionHistory: the name, the words after it and the number of
\* chips it states (0 where the line states none: "checks.", "folds.").
Line(nm, what, n) == [name |-> nm, action |-> what, amount |-> n]

Outcome(p, cb, pt, h) == [player |-> p, currentBet |-> cb, pot |-> pt, history |-> h]

\* A faulty case 0 for comparison: currentBet becomes the wager even when the
\* wager is the lower.
BotRaiseAlwaysSets(p, cb, pt, h) ==
    LET betAmount == Min(BotBet, p.chips) IN
    Outcome([p EXCEPT !.chips = @ - betAmount], betAmount, pt + betAmount,
            Append(h, Line(p.name, IF betAmount > cb THEN "raises to" ELSE "bets",
                           betAmount)))

\* case 0: the bot bets or raises min(50, chips).
BotRaise(p, cb, pt, h) ==
    LET betAmount == Min(BotBet, p.chips) IN
    IF betAmount > cb
      THEN Outcome([p EXCEPT !.chips = @ - betAmount], betAmount, pt + betAmount,
                   Append(h, Line(p.name, "raises to", betAmount)))
      ELSE Outcome([p EXCEPT !.chips = @ - betAmount], cb, pt + betAmount,
                   Append(h, Line(p.name, "bets", betAmount)))

\* case 1: the bot calls, or checks when it cannot pay currentBet.
BotCall(p, cb, pt, h) ==
    IF p.chips >= cb
      THEN Outcome([p EXCEPT !.chips = @ - cb], cb, pt + cb,
                   Append(h, Line(p.name, "calls", cb)))
      ELSE Outcome(p, cb, pt, Append(h, Line(p.name, "checks", 0)))

\* case 2: the bot folds.
BotFold(p, cb, pt, h) ==
    Outcome([p EXCEPT !.folded = TRUE], cb, pt, Append(h, Line(p.name, "folds", 0)))

\* A faulty case 3 for comparison: the bluff is made whatever the bot holds.
BotBluffUnguarded(p, cb, pt, h) ==
    Outcome([p EXCEPT !.chips = @ - BluffAmount], cb + BluffAmount,
            pt + BluffAmount, Append(h, Line(p.name, "bluffs with", BluffAmount)))

\* case 3: the bot bluffs 20 chips when it holds currentBet + 20.
BotBluff(p, cb, pt, h) ==
    IF p.chips >= cb + BluffAmount
      THEN Outcome([p EXCEPT !.chips = @ - BluffAmount], cb + BluffAmount,
                   pt + BluffAmount, Append(h, Line(p.name, "bluffs with", BluffAmount)))
      ELSE Outcome(p, cb, pt, h)

\* A faulty Bet for comparison: the amount typed is wagered whatever the chips.
HumanBetUncapped(p, cb, pt, h, typed) ==
    Outcome([p EXCEPT !.chips = @ - typed],
            IF typed > cb THEN typed ELSE cb,
            pt + typed,
            Append(h, Line(p.name, "bets", typed)))

\* A faulty Bet for comparison: the pot takes the amount typed, not the amount
\* the player's chips cover.
HumanBetTyped(p, cb, pt, h, typed) ==
    LET betAmount == IF typed > p.chips THEN p.chips ELSE typed IN
    Outcome([p EXCEPT !.chips = @ - betAmount],
            IF betAmount > cb THEN betAmount ELSE cb,
            pt + typed,
            Append(h, Line(p.name, "bets", betAmount)))

\* "Bet" or "Raise" with the amount typed (positive: the prompt repeats until it is).
HumanBet(p, cb, pt, h, typed) ==
    LET betAmount == IF typed > p.chips THEN p.chips ELSE typed IN
    Outcome([p EXCEPT !.chips = @ - betAmount],
            IF betAmount > cb THEN betAmount ELSE cb,
            pt + betAmount,
            Append(h, Line(p.name, "bets", betAmount)))

\* A faulty Call for comparison: the pot grows but the caller keeps the chips.
HumanCallFree(p, cb, pt, h) ==
    IF p.chips >= cb
      THEN Outcome(p, cb, pt + cb, Append(h, Line(p.name, "calls", cb)))
      ELSE Outcome(p, cb, pt, h)

\* "Call": pays currentBet, or only prints a message when the chips do not reach.
HumanCall(p, cb, pt, h) ==
    IF p.chips >= cb
      THEN Outcome([p EXCEPT !.chips = @ - cb], cb, pt + cb,
                   Append(h, Line(p.name, "calls", cb)))
      ELSE Outcome(p, cb, pt, h)

HumanCheck(p, cb, pt, h) ==
    Outcome(p, cb, pt, Append(h, Line(p.name, "checks", 0)))

HumanFold(p, cb, pt, h) ==
    Outcome([p EXCEPT !.folded = TRUE], cb, pt, Append(h, Line(p.name, "folds", 0)))

\* What the turn draws from outside: rand() % 4 for a bot; the action word and
\* the amount a human types.  An invalid word or amount only repeats the prompt.
BotInput(r) == [rnd |-> r, word |-> "", typed |-> 0]
HumanInput(w, n) == [rnd |-> 0, word |-> w, typed |-> n]

\* A faulty bot branch for comparison: rand() % 4 decides whatever the hand.
BotActionByChance(p, cb, pt, h, communityCards, communitySize, rnd) ==
    CASE rnd = 0 -> BotRaise(p, cb, pt, h)
      [] rnd = 1 -> BotCall(p, cb, pt, h)
      [] rnd = 2 -> BotFold(p, cb, pt, h)
      [] OTHER -> BotBluff(p, cb, pt, h)

\* The bot branch of takeAction: a strong hand raises, otherwise rand() % 4
\* decides.
BotAction(p, cb, pt, h, communityCards, communitySize, rnd) ==
    LET action == IF evaluateHandStrength(p, communityCards, communitySize)
                       > StrengthThreshold
                    THEN 0 ELSE rnd
    IN  CASE action = 0 -> BotRaise(p, cb, pt, h)
          [] action = 1 -> BotCall(p, cb, pt, h)
          [] action = 2 -> BotFold(p, cb, pt, h)
          [] OTHER -> BotBluff(p, cb, pt, h)

\* The human branch of takeAction, for the valid word that ends the prompt loop.
HumanAction(p, cb, pt, h, word, typed) ==
    CASE word \in {"Bet", "Raise"} -> HumanBet(p, cb, pt, h, typed)
      [] word = "Call" -> HumanCall(p, cb, pt, h)
      [] word = "Check" -> HumanCheck(p, cb, pt, h)
      [] OTHER -> HumanFold(p, cb, pt, h)

\* Player::takeAction
takeAction(p, cb, pt, h, communityCards, communitySize, in) ==
    IF p.folded THEN Outcome(p, cb, pt, h)
    ELSE IF IsBot(p.name)
      THEN BotAction(p, cb, pt, h, communityCards, communitySize, in.rnd)
      ELSE HumanAction(p, cb, pt, h, in.word, in.typed)

\* ------------------------------------------------------------ showdown
\* Player* winner = nullptr
NoWinner == -1

\* A faulty test for comparison: the last of the tied players leads.
LeadsOrTies(score, bestScore) == score >= bestScore

\* score > bestScore: the player takes the lead.
Leads(score, bestScore) == score > bestScore

\* The loop of showdown over players[i .. n): the index of the winner so far.
RECURSIVE ShowdownLoop(_, _, _, _, _, _, _)
ShowdownLoop(ps, n, communityCards, communitySize, i, bestScore, winner) ==
    IF i >= n THEN winner
    ELSE IF ~ps[i + 1].folded
      THEN LET score == evaluateHandStrength(ps[i + 1], communityCards, communitySize) IN
           IF Leads(score, bestScore)
             THEN ShowdownLoop(ps, n, communityCards, communitySize, i + 1, score, i)
             ELSE ShowdownLoop(ps, n, communityCards, communitySize, i + 1, bestScore, winner)
      ELSE ShowdownLoop(ps, n, communityCards, communitySize, i + 1, bestScore, winner)

\* A faulty showdown for comparison: pot is emptied whether or not anybody won.
showdownEmptiesPot(ps, n, communityCards, communitySize, pt) ==
    LET winner == ShowdownLoop(ps, n, communityCards, communitySize, 0, -1, NoWinner) IN
    IF winner # NoWinner
      THEN [players |-> [ps EXCEPT ![winner + 1].chips = @ + pt,
                                   ![winner + 1].gamesWon = @ + 1,
                                   ![winner + 1].handsWon = @ + 1],
            pot |-> 0, winner |-> winner]
      ELSE [players |-> ps, pot |-> 0, winner |-> NoWinner]

\* The lines showdown prints in its loop: the name and the score of every
\* player who has not folded.
RECURSIVE ShowdownScores(_, _, _, _)
ShowdownScores(ps, n, communityCards, communitySize) ==
    IF n = 0 THEN <<>>
    ELSE LET sooner == ShowdownScores(ps, n - 1, communityCards, communitySize) IN
         IF ps[n].folded THEN sooner
         ELSE Append(sooner, [name |-> ps[n].name,
                              score |-> evaluateHandStrength(ps[n], communityCards,
                                                             communitySize)])

\* A faulty showdown for comparison: the pot is emptied but the winner is not
\* paid.
showdownPotLost(ps, n, communityCards, communitySize, pt) ==
    LET winner == ShowdownLoop(ps, n, communityCards, communitySize, 0, -1, NoWinner) IN
    IF winner # NoWinner
      THEN [players |-> [ps EXCEPT ![winner + 1].gamesWon = @ + 1,
                                   ![winner + 1].handsWon = @ + 1],
            pot |-> 0, winner |-> winner]
      ELSE [players |-> ps, pot |-> pt, winner |-> NoWinner]

showdown(ps, n, communityCards, communitySize, pt) ==
    LET winner == ShowdownLoop(ps, n, communityCards, communitySize, 0, -1, NoWinner) IN
    IF winner # NoWinner
      THEN [players |-> [ps EXCEPT ![winner + 1].chips = @ + pt,
                                   ![winner + 1].gamesWon = @ + 1,
                                   ![winner + 1].handsWon = @ + 1],
            pot |-> 0, winner |-> winner]
      ELSE [players |-> ps, pot |-> pt, winner |-> NoWinner]

\* ------------------------------------------------------------ elimination
\* A faulty elimination loop for comparison: survivors are counted but not
\* moved down.
RECURSIVE EliminateLoopNoMove(_, _, _, _, _)
EliminateLoopNoMove(ps, n, i, remainingPlayers, eliminated) ==
    IF i >= n
      THEN [players |-> ps, numPlayers |-> remainingPlayers, eliminated |-> eliminated]
    ELSE IF ps[i + 1].chips = 0
      THEN EliminateLoopNoMove([ps EXCEPT ![i + 1].folded = TRUE], n, i + 1,
                               remainingPlayers, eliminated \cup {ps[i + 1].name})
      ELSE EliminateLoopNoMove(ps, n, i + 1, remainingPlayers + 1, eliminated)

\* The elimination loop of gameLoop over players[i .. n), compacting in place.
RECURSIVE EliminateLoop(_, _, _, _, _)
EliminateLoop(ps, n, i, remainingPlayers, eliminated) ==
    IF i >= n
      THEN [players |-> ps, numPlayers |-> remainingPlayers, eliminated |-> eliminated]
    ELSE IF ps[i + 1].chips = 0
      THEN EliminateLoop([ps EXCEPT ![i + 1].folded = TRUE], n, i + 1, remainingPlayers,
                         eliminated \cup {ps[i + 1].name})
      ELSE EliminateLoop([ps EXCEPT ![remainingPlayers + 1] = ps[i + 1]], n, i + 1,
                         remainingPlayers + 1, eliminated)

\* ------------------------------------------------------------ merge sort
\* A faulty test for comparison: on equal chips the right element goes first.
LeftFirstStrict(l, r) == l.chips > r.chips

\* L[i].chips >= R[j].chips: the left element goes first.
LeftFirst(l, r) == l.chips >= r.chips

\* The three copy loops of merge, writing arr[k] from L[i ..] and R[j ..].
RECURSIVE MergeLoop(_, _, _, _, _, _)
MergeLoop(arr, L, R, i, j, k) ==
    IF i < Len(L) /\ j < Len(R)
      THEN IF LeftFirst(L[i + 1], R[j + 1])
             THEN MergeLoop([arr EXCEPT ![k + 1] = L[i + 1]], L, R, i + 1, j, k + 1)
             ELSE MergeLoop([arr EXCEPT ![k + 1] = R[j + 1]], L, R, i, j + 1, k + 1)
    ELSE IF i < Len(L)
      THEN MergeLoop([arr EXCEPT ![k + 1] = L[i + 1]], L, R, i + 1, j, k + 1)
    ELSE IF j < Len(R)
      THEN MergeLoop([arr EXCEPT ![k + 1] = R[j + 1]], L, R, i, j + 1, k + 1)
    ELSE arr

merge(arr, left, mid, right) ==
    LET n1 == mid - left + 1
        n2 == right - mid
        L == [i \in 1..n1 |-> arr[left + i]]
        R == [i \in 1..n2 |-> arr[mid + 1 + i]]
    IN  MergeLoop(arr, L, R, 0, 0, left)

RECURSIVE mergeSort(_, _, _)
mergeSort(arr, left, right) ==
    IF left < right
      THEN LET mid == left + (right - left) \div 2 IN
           merge(mergeSort(mergeSort(arr, left, mid), mid + 1, right), left, mid, right)
      ELSE arr

\* ------------------------------------------------------------ player tree
\* A TreeNode is <<player, left, right>>; a null pointer is the empty tuple.
NoNode == <<>>
TreeNode(p) == <<p, NoNode, NoNode>>

\* PlayerTree::insert: more chips than the node go left, the rest go right.
RECURSIVE insert(_, _)
insert(node, player) ==
    IF node = NoNode THEN TreeNode(player)
    ELSE IF player.chips > node[1].chips
      THEN <<node[1], insert(node[2], player), node[3]>>
      ELSE <<node[1], node[2], insert(node[3], player)>>

\* A faulty traversal for comparison: the right subtree is visited first.
RECURSIVE inOrderRightFirst(_)
inOrderRightFirst(node) ==
    IF node = NoNode THEN <<>>
    ELSE inOrderRightFirst(node[3])
             \o <<[name |-> node[1].name, chips |-> node[1].chips]>>
             \o inOrderRightFirst(node[2])

\* PlayerTree::inOrder: the lines printed, left subtree, node, right subtree.
RECURSIVE inOrder(_)
inOrder(node) ==
    IF node = NoNode THEN <<>>
    ELSE inOrder(node[2])
             \o <<[name |-> node[1].name, chips |-> node[1].chips]>>
             \o inOrder(node[3])

\* PlayerTree::addPlayer and PlayerTree::displayPlayers
addPlayer(root, player) == insert(root, player)
displayPlayers(root) == inOrder(root)

\* ------------------------------------------------------------ interactions
NoInteractions == [nm \in {} |-> <<>>]

\* adjList[key].push_back(entry); operator[] makes the list when the key is new.
PushBack(adj, key, entry) ==
    IF key \in DOMAIN adj
      THEN [adj EXCEPT ![key] = Append(@, entry)]
      ELSE adj @@ (key :> <<entry>>)

\* A faulty addInter for comparison: only player1's list gets the entry.
addInterOneWay(adj, player1, player2, chips) ==
    PushBack(adj, player1, <<player2, chips>>)

\* InterGraph::addInter
addInter(adj, player1, player2, chips) ==
    PushBack(PushBack(adj, player1, <<player2, chips>>), player2, <<player1, chips>>)

\* The two loops of betInter, at players[i] and players[j].
RECURSIVE BetInterLoop(_, _, _, _, _, _)
BetInterLoop(ps, n, cb, i, j, adj) ==
    IF i >= n THEN adj
    ELSE IF ps[i + 1].folded \/ j >= n THEN BetInterLoop(ps, n, cb, i + 1, i + 2, adj)
    ELSE IF ~ps[j + 1].folded
      THEN BetInterLoop(ps, n, cb, i, j + 1, addInter(adj, ps[i + 1].name, ps[j + 1].name, cb))
      ELSE BetInterLoop(ps, n, cb, i, j + 1, adj)

betInter(ps, n, cb, adj) == BetInterLoop(ps, n, cb, 0, 1, adj)

RECURSIVE SumLengths(_, _)
SumLengths(adj, keys) ==
    IF keys = {} THEN 0
    ELSE LET k == CHOOSE x \in keys : TRUE IN Len(adj[k]) + SumLengths(adj, keys \ {k})

\* The number of (neighbor, chips) entries over all adjacency lists.
Entries(adj) == SumLengths(adj, DOMAIN adj)

\* ------------------------------------------------------------ state
VARIABLES
    pc,                \* where gameLoop stands
    round,             \* the betting round of the hand, 1 to 4
    iter,              \* the loop variable i of the deal loop or of the betting loop
    handNo,            \* hands begun so far
    players,           \* the array players[], as long as the roster gameLoop was given
    numPlayers,        \* gameLoop's numPlayers: the roster is players[0 .. numPlayers)
    deck,              \* cards[] and topCardIndex
    pot,
    currentBet,
    communityCards,
    communityIndex,
    eliminatedPlayers,
    turnOrder,         \* queue<int>, front first
    actionHistory,     \* the lines appended in the betting round under way
    historyOlder,      \* the number of lines before those: the list is never cleared
    adjList,           \* the entries the latest betInter call added to interactions
    adjOlder,          \* the number of entries before those: the graph is never reset
    turnLog,           \* the indices takeAction was invoked for in this betting round
    roundStart,        \* pot, currentBet and every slot's chips when the round began
    before,            \* the roster, pot and eliminated set before the latest of
                       \* showdown, elimination or sort
    dealtCards,        \* the cards dealCard has returned since the latest shuffle
    shown,             \* the "has a hand score of" lines of the showdown just made
    playerRankings,    \* the root of main's PlayerTree
    printed            \* the lines displayPlayers has printed

vars == <<pc, round, iter, handNo, players, numPlayers, deck, pot, currentBet,
          communityCards, communityIndex, eliminatedPlayers, turnOrder,
          actionHistory, historyOlder, adjList, adjOlder, turnLog, roundStart, before,
          dealtCards, shown, playerRankings, printed>>

\* Card communityCards[5]
CommunitySize == 5

NoRound == [pot |-> 0, currentBet |-> 0, chips |-> <<>>]
Nothing == [players |-> <<>>, numPlayers |-> 0, pot |-> 0, eliminated |-> {}]
Snapshot == [players |-> players, numPlayers |-> numPlayers, pot |-> pot,
             eliminated |-> eliminatedPlayers]

\* The amounts a human types at "Enter bet amount": one that most players can
\* pay, one that nobody can.
BetAmounts == {50, 2000}

\* Rosters a saved game hands to gameLoop (loadGameState reads each name as one
\* word, so a bot of a saved game is named "Bot"): two players late in a game,
\* two with the chips of a new game, three, and two of whom one has a name
\* with "Bot" inside it.
Rosters ==
    { <<NewPlayer(Ann, 100), NewPlayer(Bot, 50)>>,
      <<NewPlayer(Ann, 50), NewPlayer(RoBot, 50)>>,
      <<NewPlayer(Ann, StartChips), NewPlayer(Bot, StartChips)>>,
      <<NewPlayer(Ann, 50), NewPlayer(Bea, 50), NewPlayer(Bot, 50)>> }

\* gameLoop up to its while loop, for the roster it is given.
Enter(roster) ==
    /\ players = roster
    /\ numPlayers = Len(roster)
    /\ deck = NewDeck
    /\ pot = 0
    /\ currentBet = 0
    /\ actionHistory = <<>>
    /\ historyOlder = 0
    /\ communityCards = [i \in 1..CommunitySize |-> NoCard]
    /\ communityIndex = 0
    /\ eliminatedPlayers = {}
    /\ turnOrder = [i \in 1..Len(roster) |-> i - 1]
    /\ adjList = NoInteractions
    /\ adjOlder = 0
    /\ round = 0
    /\ iter = 0
    /\ handNo = 0
    /\ turnLog = <<>>
    /\ roundStart = NoRound
    /\ before = Nothing
    /\ dealtCards = <<>>
    /\ shown = <<>>
    /\ playerRankings = NoNode
    /\ printed = <<>>

Init == pc = "loop" /\ \E roster \in Rosters : Enter(roster)

\* count_if(players, players + numPlayers, chips > 0)
WithChips == Cardinality({i \in 1..numPlayers : players[i].chips > 0})

\* A faulty start of a hand for comparison: the deck is dealt from its top
\* again, as after deck.reset().
NewHandResetsDeck ==
    /\ pc = "loop"
    /\ WithChips > 1
    /\ \E order \in ShuffleOutcomes : deck' = [cards |-> order, topCardIndex |-> 0]
    /\ communityIndex' = 0
    /\ pc' = "deal"
    /\ iter' = 0
    /\ handNo' = handNo + 1
    /\ UNCHANGED <<round, players, numPlayers, pot, currentBet, communityCards,
                   eliminatedPlayers, turnOrder, actionHistory, historyOlder, adjList,
                   adjOlder, turnLog, roundStart, before>>
    /\ dealtCards' = <<>>
    /\ UNCHANGED <<shown, playerRankings, printed>>

\* A faulty start of a hand for comparison: communityIndex keeps the count of
\* the hand before.
NewHandKeepsCommunity ==
    /\ pc = "loop"
    /\ WithChips > 1
    /\ \E order \in ShuffleOutcomes : deck' = [deck EXCEPT !.cards = order]
    /\ pc' = "deal"
    /\ iter' = 0
    /\ handNo' = handNo + 1
    /\ UNCHANGED <<round, players, numPlayers, pot, currentBet, communityCards,
                   communityIndex, eliminatedPlayers, turnOrder, actionHistory,
                   historyOlder, adjList, adjOlder, turnLog, roundStart, before>>
    /\ dealtCards' = <<>>
    /\ UNCHANGED <<shown, playerRankings, printed>>

\* ------------------------------------------------------------ the hand begins
\* The while condition holds: shuffle, and reset the community cards.
NewHand ==
    /\ pc = "loop"
    /\ WithChips > 1
    /\ \E order \in ShuffleOutcomes : deck' = [deck EXCEPT !.cards = order]
    /\ communityIndex' = 0
    /\ pc' = "deal"
    /\ iter' = 0
    /\ handNo' = handNo + 1
    /\ UNCHANGED <<round, players, numPlayers, pot, currentBet, communityCards,
                   eliminatedPlayers, turnOrder, actionHistory, historyOlder, adjList,
                   adjOlder, turnLog, roundStart, before>>
    /\ dealtCards' = <<>>
    /\ UNCHANGED <<shown, playerRankings, printed>>

\* The while condition fails: the winner is announced.
GameOver ==
    /\ pc = "loop"
    /\ WithChips <= 1
    /\ pc' = "over"
    /\ UNCHANGED <<round, iter, handNo, players, numPlayers, deck, pot, currentBet,
                   communityCards, communityIndex, eliminatedPlayers, turnOrder,
                   actionHistory, historyOlder, adjList, adjOlder, turnLog, roundStart,
                   before>>
    /\ UNCHANGED <<dealtCards, shown, playerRankings, printed>>

\* A betting loop begins.
BeginRound(r) ==
    /\ pc' = "bet"
    /\ round' = r
    /\ iter' = 0
    /\ roundStart' = [pot |-> pot, currentBet |-> currentBet,
                      chips |-> [i \in 1..Len(players) |-> players[i].chips]]

\* One pass of the deal loop: players[i] is unfolded and gets two cards.
DealHole ==
    /\ pc = "deal"
    /\ iter < numPlayers
    /\ LET first == dealCard(deck)
           second == dealCard(first.deck)
       IN  /\ ~first.threw /\ ~second.threw
           /\ deck' = second.deck
           /\ dealtCards' = dealtCards \o <<first.card, second.card>>
           /\ players' = [players EXCEPT ![iter + 1].folded = FALSE,
                                         ![iter + 1].hand = <<first.card, second.card>>]
    /\ IF iter + 1 < numPlayers
         THEN /\ iter' = iter + 1
              /\ UNCHANGED <<pc, round, roundStart>>
         ELSE BeginRound(1)
    /\ UNCHANGED <<handNo, numPlayers, pot, currentBet, communityCards, communityIndex,
                   eliminatedPlayers, turnOrder, actionHistory, historyOlder, adjList,
                   adjOlder, turnLog, before>>
    /\ UNCHANGED <<shown, playerRankings, printed>>

\* The same pass with dealCard throwing at the first or at the second card:
\* nothing catches the exception.
DealHoleThrows ==
    /\ pc = "deal"
    /\ iter < numPlayers
    /\ LET first == dealCard(deck)
           second == dealCard(first.deck)
       IN  /\ first.threw \/ second.threw
           /\ deck' = first.deck
           /\ dealtCards' = IF first.threw THEN dealtCards ELSE Append(dealtCards, first.card)
           /\ players' = [players EXCEPT ![iter + 1].folded = FALSE,
                                         ![iter + 1].hand =
                                             IF first.threw THEN @ ELSE <<first.card, @[2]>>]
    /\ pc' = "error"
    /\ UNCHANGED <<round, iter, handNo, numPlayers, pot, currentBet, communityCards,
                   communityIndex, eliminatedPlayers, turnOrder, actionHistory,
                   historyOlder, adjList, adjOlder, turnLog, roundStart, before>>
    /\ UNCHANGED <<shown, playerRankings, printed>>

\* ------------------------------------------------------------ a betting loop
\* The player at the front of the queue.
Front == players[Head(turnOrder) + 1]

\* A pass of the betting loop that finds the queue empty.
EmptyTurn ==
    /\ pc = "bet"
    /\ iter < numPlayers
    /\ turnOrder = <<>>
    /\ iter' = iter + 1
    /\ UNCHANGED <<pc, round, handNo, players, numPlayers, deck, pot, currentBet,
                   communityCards, communityIndex, eliminatedPlayers, turnOrder,
                   actionHistory, historyOlder, adjList, adjOlder, turnLog, roundStart,
                   before>>
    /\ UNCHANGED <<dealtCards, shown, playerRankings, printed>>

\* A pass that pops a player who has folded or has no chips: no takeAction, no push.
SkipTurn ==
    /\ pc = "bet"
    /\ iter < numPlayers
    /\ turnOrder # <<>>
    /\ ~(~Front.folded /\ Front.chips > 0)
    /\ turnOrder' = Tail(turnOrder)
    /\ iter' = iter + 1
    /\ UNCHANGED <<pc, round, handNo, players, numPlayers, deck, pot, currentBet,
                   communityCards, communityIndex, eliminatedPlayers, actionHistory,
                   historyOlder, adjList, adjOlder, turnLog, roundStart, before>>
    /\ UNCHANGED <<dealtCards, shown, playerRankings, printed>>

\* A pass that pops a player who may act: takeAction, then push.
Turn(in) ==
    /\ pc = "bet"
    /\ iter < numPlayers
    /\ turnOrder # <<>>
    /\ ~Front.folded /\ Front.chips > 0
    /\ LET currentPlayerIndex == Head(turnOrder)
           out == takeAction(Front, currentBet, pot, actionHistory, communityCards,
                             communityIndex, in)
       IN  /\ players' = [players EXCEPT ![currentPlayerIndex + 1] = out.player]
           /\ currentBet' = out.currentBet
           /\ pot' = out.pot
           /\ actionHistory' = out.history
           /\ turnOrder' = Append(Tail(turnOrder), currentPlayerIndex)
           /\ turnLog' = Append(turnLog, currentPlayerIndex)
    /\ iter' = iter + 1
    /\ UNCHANGED <<pc, round, handNo, numPlayers, deck, communityCards, communityIndex,
                   eliminatedPlayers, historyOlder, adjList, adjOlder, roundStart, before>>
    /\ UNCHANGED <<dealtCards, shown, playerRankings, printed>>

\* The front of the queue is a bot, or a human.
BotTurn == pc = "bet" /\ turnOrder # <<>> /\ IsBot(Front.name)
HumanTurn == pc = "bet" /\ turnOrder # <<>> /\ ~IsBot(Front.name)

\* A bot's turn, by what rand() % 4 gives.
BotDraws0 == BotTurn /\ Turn(BotInput(0))
BotDraws1 == BotTurn /\ Turn(BotInput(1))
BotDraws2 == BotTurn /\ Turn(BotInput(2))
BotDraws3 == BotTurn /\ Turn(BotInput(3))

\* A human's turn, by the word typed.
HumanBets ==
    HumanTurn /\ \E w \in {"Bet", "Raise"} : \E n \in BetAmounts : Turn(HumanInput(w, n))
HumanCalls == HumanTurn /\ Turn(HumanInput("Call", 0))
HumanChecks == HumanTurn /\ Turn(HumanInput("Check", 0))
HumanFolds == HumanTurn /\ Turn(HumanInput("Fold", 0))

\* The betting loop is over: betInter and displayPot.
EndRound ==
    /\ pc = "bet"
    /\ iter >= numPlayers
    /\ adjOlder' = adjOlder + Entries(adjList)
    /\ adjList' = betInter(players, numPlayers, currentBet, NoInteractions)
    /\ pc' = IF round = 4 THEN "showdown" ELSE "community"
    /\ historyOlder' = historyOlder + Len(actionHistory)
    /\ actionHistory' = <<>>
    /\ turnLog' = <<>>
    /\ roundStart' = NoRound
    /\ UNCHANGED <<round, iter, handNo, players, numPlayers, deck, pot, currentBet,
                   communityCards, communityIndex, eliminatedPlayers, turnOrder, before>>
    /\ UNCHANGED <<dealtCards, shown, playerRankings, printed>>

\* ------------------------------------------------------------ community cards
\* A faulty deal loop for comparison: every deal is made from the deck as it
\* was when the loop began.
RECURSIVE DealLoopSameDeck(_, _, _, _)
DealLoopSameDeck(d, cards, index, k) ==
    IF k = 0 THEN [deck |-> d, cards |-> cards, index |-> index, threw |-> FALSE]
    ELSE IF index < CommunitySize
      THEN LET dealt == dealCard(d) IN
           IF dealt.threw
             THEN [deck |-> d, cards |-> cards, index |-> index, threw |-> TRUE]
             ELSE DealLoopSameDeck(d, [cards EXCEPT ![index + 1] = dealt.card],
                                   index + 1, k - 1)
      ELSE DealLoopSameDeck(d, cards, index, k - 1)

\* k guarded deals: if (communityIndex < 5) communityCards[communityIndex++] = dealCard()
RECURSIVE DealLoop(_, _, _, _)
DealLoop(d, cards, index, k) ==
    IF k = 0 THEN [deck |-> d, cards |-> cards, index |-> index, threw |-> FALSE]
    ELSE IF index < CommunitySize
      THEN LET dealt == dealCard(d) IN
           IF dealt.threw
             THEN [deck |-> d, cards |-> cards, index |-> index, threw |-> TRUE]
             ELSE DealLoop(dealt.deck, [cards EXCEPT ![index + 1] = dealt.card],
                           index + 1, k - 1)
      ELSE DealLoop(d, cards, index, k - 1)

\* The flop has three cards, the turn and the river one each.
Reveal == IF round = 1 THEN 3 ELSE 1

DealCommunity ==
    /\ pc = "community"
    /\ LET dealt == DealLoop(deck, communityCards, communityIndex, Reveal) IN
       /\ ~dealt.threw
       /\ deck' = dealt.deck
       /\ communityCards' = dealt.cards
       /\ communityIndex' = dealt.index
    /\ BeginRound(round + 1)
    /\ UNCHANGED <<handNo, players, numPlayers, pot, currentBet, eliminatedPlayers,
                   turnOrder, actionHistory, historyOlder, adjList, adjOlder, turnLog,
                   before>>
    /\ dealtCards' = dealtCards \o SubSeq(communityCards', communityIndex + 1, communityIndex')
    /\ UNCHANGED <<shown, playerRankings, printed>>

\* The same with dealCard throwing: nothing catches the exception.
DealCommunityThrows ==
    /\ pc = "community"
    /\ LET dealt == DealLoop(deck, communityCards, communityIndex, Reveal) IN
       /\ dealt.threw
       /\ deck' = dealt.deck
       /\ communityCards' = dealt.cards
       /\ communityIndex' = dealt.index
    /\ pc' = "error"
    /\ UNCHANGED <<round, iter, handNo, players, numPlayers, pot, currentBet,
                   eliminatedPlayers, turnOrder, actionHistory, historyOlder, adjList,
                   adjOlder, turnLog, roundStart, before>>
    /\ dealtCards' = dealtCards \o SubSeq(communityCards', communityIndex + 1, communityIndex')
    /\ UNCHANGED <<shown, playerRankings, printed>>

\* ------------------------------------------------------------ the hand ends
Showdown ==
    /\ pc = "showdown"
    /\ LET out == showdown(players, numPlayers, communityCards, communityIndex, pot) IN
       /\ players' = out.players
       /\ pot' = out.pot
    /\ before' = Snapshot
    /\ pc' = "eliminate"
    /\ UNCHANGED <<round, iter, handNo, numPlayers, deck, currentBet, communityCards,
                   communityIndex, eliminatedPlayers, turnOrder, actionHistory,
                   historyOlder, adjList, adjOlder, turnLog, roundStart>>
    /\ shown' = ShowdownScores(players, numPlayers, communityCards, communityIndex)
    /\ UNCHANGED <<playerRankings, printed>>
    /\ UNCHANGED dealtCards

Eliminate ==
    /\ pc = "eliminate"
    /\ LET out == EliminateLoop(players, numPlayers, 0, 0, eliminatedPlayers) IN
       /\ players' = out.players
       /\ numPlayers' = out.numPlayers
       /\ eliminatedPlayers' = out.eliminated
    /\ before' = Snapshot
    /\ pc' = "sort"
    /\ UNCHANGED <<round, iter, handNo, deck, pot, currentBet, communityCards,
                   communityIndex, turnOrder, actionHistory, historyOlder, adjList,
                   adjOlder, turnLog, roundStart>>
    /\ shown' = <<>>
    /\ UNCHANGED <<playerRankings, printed>>
    /\ UNCHANGED dealtCards

SortRoster ==
    /\ pc = "sort"
    /\ players' = mergeSort(players, 0, numPlayers - 1)
    /\ before' = Snapshot
    /\ pc' = "continue"
    /\ UNCHANGED <<round, iter, handNo, numPlayers, deck, pot, currentBet,
                   communityCards, communityIndex, eliminatedPlayers, turnOrder,
                   actionHistory, historyOlder, adjList, adjOlder, turnLog, roundStart>>
    /\ UNCHANGED <<dealtCards, shown, playerRankings, printed>>

\* The continue prompt answered with anything but 'n' or 'N'.
Continue ==
    /\ pc = "continue"
    /\ pc' = "save"
    /\ before' = Nothing
    /\ UNCHANGED <<round, iter, handNo, players, numPlayers, deck, pot, currentBet,
                   communityCards, communityIndex, eliminatedPlayers, turnOrder,
                   actionHistory, historyOlder, adjList, adjOlder, turnLog, roundStart>>
    /\ UNCHANGED <<dealtCards, shown, playerRankings, printed>>

\* The user goes on for MaxHands hands at most, MaxPassiveHands in SpecPassive.
ContinueGame == handNo < MaxHands /\ Continue
ContinuePassive == handNo < MaxPassiveHands /\ Continue

\* The continue prompt answered with 'n' or 'N': gameLoop returns.
QuitGame ==
    /\ pc = "continue"
    /\ pc' = "exit"
    /\ before' = Nothing
    /\ UNCHANGED <<round, iter, handNo, players, numPlayers, deck, pot, currentBet,
                   communityCards, communityIndex, eliminatedPlayers, turnOrder,
                   actionHistory, historyOlder, adjList, adjOlder, turnLog, roundStart>>
    /\ UNCHANGED <<dealtCards, shown, playerRankings, printed>>

\* The save prompt, whatever the answer: saveGameState writes a file only.
SaveGame ==
    /\ pc = "save"
    /\ pc' = "loop"
    /\ UNCHANGED <<round, iter, handNo, players, numPlayers, deck, pot, currentBet,
                   communityCards, communityIndex, eliminatedPlayers, turnOrder,
                   actionHistory, historyOlder, adjList, adjOlder, turnLog, roundStart,
                   before>>
    /\ UNCHANGED <<dealtCards, shown, playerRankings, printed>>

\* ------------------------------------------------------------ specifications
\* One hand with every action open to every player, bots and humans; the user
\* answers 'n' at the continue prompt.
Next ==
    \/ NewHand \/ DealHole
    \/ EmptyTurn \/ SkipTurn
    \/ BotDraws0 \/ BotDraws1 \/ BotDraws2 \/ BotDraws3
    \/ HumanBets \/ HumanCalls \/ HumanChecks \/ HumanFolds
    \/ EndRound \/ DealCommunity
    \/ Showdown \/ Eliminate \/ SortRoster
    \/ QuitGame

Spec == Init /\ [][Next]_vars

Dan == <<"D", "a", "n">>
Eve == <<"E", "v", "e">>
Fay == <<"F", "a", "y">>
Humans == <<Ann, Bea, Cal, Dan, Eve, Fay>>

\* Up to MaxHands hands of a game of humans who bet, check and fold.
HumanRosters ==
    { <<NewPlayer(Ann, 100), NewPlayer(Bea, 50)>>,
      <<NewPlayer(Ann, 50), NewPlayer(Bea, 50), NewPlayer(Cal, 50)>> }

InitHands == pc = "loop" /\ \E roster \in HumanRosters : Enter(roster)

NextHands ==
    \/ NewHand \/ GameOver \/ DealHole
    \/ EmptyTurn \/ SkipTurn
    \/ HumanBets \/ HumanChecks \/ HumanFolds
    \/ EndRound \/ DealCommunity
    \/ Showdown \/ Eliminate \/ SortRoster
    \/ ContinueGame \/ QuitGame \/ SaveGame

SpecHands == InitHands /\ [][NextHands]_vars

\* The game of humans who check at every turn, for as many hands as the deck
\* gives: a new game of six humans (main), and saved games of two and of three.
PassiveRosters ==
    { [i \in 1..MAX_PLAYERS |-> NewPlayer(Humans[i], StartChips)],
      [i \in 1..2 |-> NewPlayer(Humans[i], StartChips)],
      [i \in 1..3 |-> NewPlayer(Humans[i], StartChips)] }

InitPassive == pc = "loop" /\ \E roster \in PassiveRosters : Enter(roster)

NextPassive ==
    \/ NewHand \/ DealHole \/ DealHoleThrows
    \/ HumanChecks
    \/ EndRound \/ DealCommunity \/ DealCommunityThrows
    \/ Showdown \/ Eliminate \/ SortRoster
    \/ ContinuePassive \/ QuitGame \/ SaveGame

SpecPassive == InitPassive /\ [][NextPassive]_vars

\* mergeSort alone, on every roster of up to MAX_PLAYERS players.
InitSort ==
    /\ pc = "sort"
    /\ \E n \in 0..MAX_PLAYERS : \E chips \in [1..n -> 1..MaxSortChips] :
           Enter([i \in 1..n |-> NewPlayer(Humans[i], chips[i])])

NextSort == SortRoster

SpecSort == InitSort /\ [][NextSort]_vars

\* The Deck alone: shuffles at any cursor, and deals until one throws.
\* Rotate(order, k) is order begun k places later; DeckShuffles are the
\* outcomes of std::shuffle taken here.
Reversed == [i \in 1..MAX_CARDS |-> MAX_CARDS - i]
Rotate(order, k) == [i \in 1..MAX_CARDS |-> order[((i - 1 + k) % MAX_CARDS) + 1]]
DeckShuffles == {Rotate(order, k) : order \in ShuffleOutcomes \cup {Reversed}, k \in 0..MaxRotate}

InitDeck == pc = "deck" /\ Enter(<<>>)

GameUntouched ==
    UNCHANGED <<round, iter, handNo, players, numPlayers, pot, currentBet,
                communityCards, communityIndex, eliminatedPlayers, turnOrder,
                actionHistory, historyOlder, adjList, adjOlder, turnLog, roundStart,
                before, shown, playerRankings, printed>>

\* deck.shuffle()
ShuffleDeck ==
    /\ pc = "deck"
    /\ \E order \in DeckShuffles : deck' = [deck EXCEPT !.cards = order]
    /\ dealtCards' = <<>>
    /\ UNCHANGED pc
    /\ GameUntouched

\* deck.dealCard() returning a card
DealOne ==
    /\ pc = "deck"
    /\ LET out == dealCard(deck) IN
       /\ ~out.threw
       /\ deck' = out.deck
       /\ dealtCards' = Append(dealtCards, out.card)
    /\ UNCHANGED pc
    /\ GameUntouched

\* deck.dealCard() throwing
DealOneThrows ==
    /\ pc = "deck"
    /\ LET out == dealCard(deck) IN
       /\ out.threw
       /\ deck' = out.deck
    /\ pc' = "error"
    /\ UNCHANGED dealtCards
    /\ GameUntouched

NextDeck == ShuffleDeck \/ DealOne \/ DealOneThrows

SpecDeck == InitDeck /\ [][NextDeck]_vars

\* showdown alone, for one player and every hand and board drawn in any order
\* from ScoreDeck: the four cards of rank 0, three of rank 1 and one of each
\* further rank up to MaxScoreRank.
Copies(r) == IF r = 0 THEN NumSuits ELSE IF r = 1 THEN NumSuits - 1 ELSE 1
ScoreDeck == {c \in 0..(MAX_CARDS - 1) : Rank(c) <= MaxScoreRank /\ Suit(c) < Copies(Rank(c))}

RECURSIVE Arrangements(_, _)
\* The sequences of n distinct cards of S.
Arrangements(S, n) ==
    IF n = 0 THEN {<<>>}
    ELSE UNION {{Append(a, c) : c \in S \ {a[k] : k \in 1..Len(a)}} :
                   a \in Arrangements(S, n - 1)}

InitScore ==
    /\ pc = "showdown"
    /\ \E size \in 0..CommunitySize : \E cs \in Arrangements(ScoreDeck, 2 + size) :
           /\ players = <<[NewPlayer(Ann, StartChips) EXCEPT !.hand = <<cs[1], cs[2]>>]>>
           /\ communityCards =
                  [i \in 1..CommunitySize |-> IF i <= size THEN cs[2 + i] ELSE NoCard]
           /\ communityIndex = size
    /\ numPlayers = 1
    /\ deck = NewDeck
    /\ pot = 0
    /\ currentBet = 0
    /\ actionHistory = <<>>
    /\ historyOlder = 0
    /\ eliminatedPlayers = {}
    /\ turnOrder = <<0>>
    /\ adjList = NoInteractions
    /\ adjOlder = 0
    /\ round = 4
    /\ iter = 0
    /\ handNo = 1
    /\ turnLog = <<>>
    /\ roundStart = NoRound
    /\ before = Nothing
    /\ dealtCards = <<>>
    /\ shown = <<>>
    /\ playerRankings = NoNode
    /\ printed = <<>>

NextScore == Showdown

SpecScore == InitScore /\ [][NextScore]_vars

\* main's ranking of a roster: every player is added to the tree, then the
\* tree is displayed.
InitTree ==
    /\ pc = "rank"
    /\ \E n \in 0..MaxTreePlayers : \E chips \in [1..n -> 0..MaxTreeChips] :
           Enter([i \in 1..n |-> NewPlayer(Humans[i], chips[i])])

\* playerRankings.addPlayer(players[i])
AddPlayer ==
    /\ pc = "rank"
    /\ iter < numPlayers
    /\ playerRankings' = addPlayer(playerRankings, players[iter + 1])
    /\ iter' = iter + 1
    /\ UNCHANGED <<pc, round, handNo, players, numPlayers, deck, pot, currentBet,
                   communityCards, communityIndex, eliminatedPlayers, turnOrder,
                   actionHistory, historyOlder, adjList, adjOlder, turnLog, roundStart,
                   before, dealtCards, shown, printed>>

\* playerRankings.displayPlayers()
DisplayPlayers ==
    /\ pc = "rank"
    /\ iter >= numPlayers
    /\ printed' = displayPlayers(playerRankings)
    /\ pc' = "ranked"
    /\ UNCHANGED <<round, iter, handNo, players, numPlayers, deck, pot, currentBet,
                   communityCards, communityIndex, eliminatedPlayers, turnOrder,
                   actionHistory, historyOlder, adjList, adjOlder, turnLog, roundStart,
                   before, dealtCards, shown, playerRankings>>

NextTree == AddPlayer \/ DisplayPlayers

SpecTree == InitTree /\ [][NextTree]_vars

\* Games of two humans who may check, bet or raise at every prompt and go on as
\* long as the continue prompt lets them. The program takes its next step
\* whenever it has one, every prompt being answered in the end.
LiveRosters == { <<NewPlayer(Ann, 50), NewPlayer(Bea, 50)>> }

InitLive == pc = "loop" /\ \E roster \in LiveRosters : Enter(roster)

NextLive ==
    \/ NewHand \/ GameOver \/ DealHole
    \/ EmptyTurn \/ SkipTurn
    \/ HumanBets \/ HumanChecks
    \/ EndRound \/ DealCommunity \/ DealCommunityThrows
    \/ Showdown \/ Eliminate \/ SortRoster
    \/ ContinuePassive \/ QuitGame \/ SaveGame

SpecLive == InitLive /\ [][NextLive]_vars /\ WF_vars(NextLive)

\* ------------------------------------------------------------ claims
\* The betting loop has made its numPlayers passes; betInter comes next.
RoundOver == pc = "bet" /\ iter >= numPlayers

\* How often takeAction was invoked for players[i] in the round.
Turns(i) == Cardinality({k \in 1..Len(turnLog) : turnLog[k] = i})

RECURSIVE Wagered(_)
\* The chips the lines of h state.
Wagered(h) == IF h = <<>> THEN 0 ELSE Head(h).amount + Wagered(Tail(h))

\* C1: in every betting round no player takes more than one action.
C1_OneActionPerRound == \A i \in 0..(Len(players) - 1) : Turns(i) <= 1

\* C2: at the end of every betting round, every roster player who is not
\* folded and has chips has had a turn in it.
C2_EveryEligiblePlayerActs ==
    RoundOver =>
        \A i \in 0..(numPlayers - 1) :
            (~players[i + 1].folded /\ players[i + 1].chips > 0) => Turns(i) >= 1

\* C3: the turn queue keeps holding every index that was enqueued at the start,
\* skipped players included.
C3_QueueKeepsEveryIndex ==
    \A i \in 0..(Len(players) - 1) : \E k \in 1..Len(turnOrder) : turnOrder[k] = i

\* C4 as stated: after a betting round pot equals the sum of the wagers that
\* actionHistory records for that round.
C4_PotIsRoundWagers == RoundOver => pot = Wagered(actionHistory)

\* C4 as amended: after a betting round pot equals pot before the round plus
\* the sum of the wagers that actionHistory records for that round.
C4_PotGrowsByRoundWagers == RoundOver => pot = roundStart.pot + Wagered(actionHistory)

\* A second or later round ends, with wagers in it and in the rounds before,
\* and nobody has staked the last chip.
C4_Witness ==
    /\ RoundOver
    /\ roundStart.pot > 0
    /\ Wagered(actionHistory) > 0
    /\ \A i \in 1..numPlayers : players[i].chips > 0

\* The round began with pot = 0 and currentBet = 0; its first turn was a bet
\* and its second, by another player, a call.
BetThenCall ==
    /\ pc = "bet"
    /\ roundStart.pot = 0 /\ roundStart.currentBet = 0
    /\ Len(turnLog) = 2 /\ Len(actionHistory) = 2
    /\ turnLog[1] # turnLog[2]
    /\ actionHistory[1].action \in {"bets", "raises to"}
    /\ actionHistory[2].action = "calls"

\* C5: from pot = 0 and currentBet = 0, a bet of a followed by the next
\* player's call leaves pot = 2a, currentBet = a and both players a chips down.
C5_BetThenCall ==
    BetThenCall =>
        LET a == actionHistory[1].amount
            p1 == turnLog[1] + 1
            p2 == turnLog[2] + 1
        IN  /\ a > 0
            /\ pot = 2 * a
            /\ currentBet = a
            /\ players[p1].chips = roundStart.chips[p1] - a
            /\ players[p2].chips = roundStart.chips[p2] - a

\* The case the specification names: 1000 chips each, a bet of 50, a call.
C5_Witness ==
    /\ BetThenCall
    /\ actionHistory[1].amount = 50
    /\ roundStart.chips[turnLog[1] + 1] = 1000
    /\ roundStart.chips[turnLog[2] + 1] = 1000
    /\ pot = 100

\* The roster players who had not folded when showdown began, their scores,
\* and the first of those with the highest score.
Unfolded == {i \in 1..before.numPlayers : ~before.players[i].folded}
ScoreOf(i) == evaluateHandStrength(before.players[i], communityCards, communityIndex)
Highest == {i \in Unfolded : \A j \in Unfolded : ScoreOf(i) >= ScoreOf(j)}
FirstHighest == CHOOSE i \in Highest : \A j \in Highest : i <= j

\* C6: showdown gives the whole pot and one more game and hand won to the first
\* unfolded roster player with the highest score, empties pot, and changes
\* nothing else of any player.
C6_ShowdownAward ==
    (pc = "eliminate" /\ Unfolded # {}) =>
        /\ pot = 0
        /\ players = [before.players EXCEPT
                         ![FirstHighest].chips = @ + before.pot,
                         ![FirstHighest].gamesWon = @ + 1,
                         ![FirstHighest].handsWon = @ + 1]

\* Showdown has paid a pot to the first of several players with the top score.
C6_Witness ==
    /\ pc = "eliminate"
    /\ Cardinality(Highest) >= 2
    /\ before.pot > 0
    /\ players[FirstHighest].chips > before.players[FirstHighest].chips

\* C7: with every roster player folded, showdown changes no player and leaves
\* pot as it is; and nothing between showdown and the first betting round of the
\* next hand changes pot.
C7_PotCarriedOver ==
    [][/\ (pc = "showdown" /\ \A i \in 1..numPlayers : players[i].folded)
           => (pot' = pot /\ players' = players)
       /\ pc \in {"eliminate", "sort", "continue", "save", "loop", "deal"}
           => pot' = pot]_vars

\* The second hand begins its first betting round with chips in the pot.
C7_Witness == pc = "bet" /\ round = 1 /\ iter = 0 /\ handNo = 2 /\ pot > 0

\* The roster before elimination, and those of it who have chips.
RosterBefore == SubSeq(before.players, 1, before.numPlayers)
HasChips(p) == p.chips # 0
Removed == {RosterBefore[i].name : i \in {j \in 1..Len(RosterBefore) : ~HasChips(RosterBefore[j])}}

\* C8: after elimination the roster is the players who had chips, in their
\* order, and the eliminated set has gained the names of the others.
C8_Elimination ==
    pc = "sort" =>
        /\ SubSeq(players, 1, numPlayers) = SelectSeq(RosterBefore, HasChips)
        /\ \A i \in 1..numPlayers : players[i].chips # 0
        /\ eliminatedPlayers = before.eliminated \cup Removed

\* Elimination has removed a player from in front of two who stay.
C8_Witness ==
    /\ pc = "sort"
    /\ numPlayers >= 2
    /\ ~HasChips(RosterBefore[1])
    /\ eliminatedPlayers # before.eliminated

\* Where the player named nm stood before the sort.
PlaceBefore(nm) == CHOOSE k \in 1..before.numPlayers : before.players[k].name = nm

\* C9: mergeSort leaves a permutation of the roster in non-increasing order of
\* chips, players with equal chips in the order they had.
C9_StableSort ==
    pc = "continue" =>
        /\ Len(players) = Len(before.players)
        /\ \A k \in 1..numPlayers : \E j \in 1..numPlayers : players[k] = before.players[j]
        /\ \A j \in 1..numPlayers : \E k \in 1..numPlayers : players[k] = before.players[j]
        /\ \A k \in 1..(numPlayers - 1) : players[k].chips >= players[k + 1].chips
        /\ \A k \in 1..numPlayers : \A l \in (k + 1)..numPlayers :
               players[k].chips = players[l].chips
                   => PlaceBefore(players[k].name) < PlaceBefore(players[l].name)

\* A roster of six was sorted that was out of order and had players with equal
\* chips on both sides of a player with more.
C9_Witness ==
    /\ pc = "continue"
    /\ numPlayers = MAX_PLAYERS
    /\ \E a, b, c \in 1..numPlayers :
           /\ a < b /\ b < c
           /\ before.players[a].chips = before.players[c].chips
           /\ before.players[b].chips > before.players[a].chips
    /\ players # before.players

\* C10: no deal inside gameLoop fails.
C10_NoDealFails == pc # "error"

\* C11: topCardIndex stays within 0..52; below 52 dealCard returns the card at
\* the cursor and moves the cursor on by one; at 52 it throws, returns no card
\* and leaves cursor and cards as they are.  The cards dealt since the shuffle
\* are those the cursor has passed, and a deal fails only at cursor 52.
C11_DeckCursor ==
    /\ deck.topCardIndex \in 0..MAX_CARDS
    /\ LET out == dealCard(deck) IN
       IF deck.topCardIndex < MAX_CARDS
         THEN /\ ~out.threw
              /\ out.card = deck.cards[deck.topCardIndex + 1]
              /\ out.deck.topCardIndex = deck.topCardIndex + 1
              /\ out.deck.cards = deck.cards
         ELSE /\ out.threw
              /\ out.card = NoCard
              /\ out.deck = deck
    /\ Len(dealtCards) <= deck.topCardIndex
    /\ \A k \in 1..Len(dealtCards) :
           dealtCards[k] = deck.cards[deck.topCardIndex - Len(dealtCards) + k]
    /\ pc = "error" => deck.topCardIndex = MAX_CARDS

\* A deal has failed at cursor 52, after deals of the same hand that succeeded.
C11_Witness == pc = "error" /\ deck.topCardIndex = MAX_CARDS /\ Len(dealtCards) > 0

\* The (rank, suit) pairs of the 52 cards.
AllPairs == (0..(NumRanks - 1)) \X (0..(NumSuits - 1))

\* C12: whatever the shuffle left, 52 cards dealt from cursor 0 without a reset
\* are the 52 distinct (rank, suit) pairs, each exactly once.
C12_FullDeckDealt ==
    Len(dealtCards) = MAX_CARDS =>
        \A pair \in AllPairs :
            Cardinality({k \in 1..MAX_CARDS :
                            <<Rank(dealtCards[k]), Suit(dealtCards[k])>> = pair}) = 1

\* All 52 cards have been dealt from a deck that a shuffle had reordered.
C12_Witness ==
    /\ pc = "deck"
    /\ Len(dealtCards) = MAX_CARDS
    /\ deck.cards # NewDeck.cards

\* The hole cards of the roster, seat by seat, and the community cards shown.
HoleCards ==
    [k \in 1..(2 * numPlayers) |-> players[(k + 1) \div 2].hand[IF k % 2 = 1 THEN 1 ELSE 2]]
ShownCommunity == SubSeq(communityCards, 1, communityIndex)

\* C13: the cards dealt since the hand's shuffle are pairwise distinct, and
\* once the hole cards are out they are the roster's hole cards and the
\* community cards shown.
C13_DistinctCardsInHand ==
    /\ \A i \in 1..Len(dealtCards) : \A j \in (i + 1)..Len(dealtCards) :
           dealtCards[i] # dealtCards[j]
    /\ pc \in {"bet", "community", "showdown"} => dealtCards = HoleCards \o ShownCommunity

\* A hand after the first has dealt six players' hole cards and all five
\* community cards.
C13_Witness ==
    /\ pc = "showdown"
    /\ handNo >= 2
    /\ numPlayers = MAX_PLAYERS
    /\ Len(dealtCards) = 2 * MAX_PLAYERS + CommunitySize

\* The cards the player scored at the showdown just made, and how many of
\* them have rank r.
Scored == players[1].hand \o SubSeq(communityCards, 1, communityIndex)
Multiplicity(r) == Cardinality({k \in 1..Len(Scored) : Rank(Scored[k]) = r})
Repeated == {r \in 0..(NumRanks - 1) : Multiplicity(r) >= 2}

\* f(2) = 2, f(3) = 6, f(4) = 10, f = 0 otherwise.
F(n) == CASE n = 2 -> 2 [] n = 3 -> 6 [] n = 4 -> 10 [] OTHER -> 0

RECURSIVE SumF(_)
SumF(ranks) ==
    IF ranks = {} THEN 0
    ELSE LET r == CHOOSE x \in ranks : TRUE IN F(Multiplicity(r)) + SumF(ranks \ {r})

\* C14: the score is the sum over the ranks of f(multiplicity of the rank among
\* the 2 hole cards and the visible community cards): 0 without a repeated
\* rank, 2 for one pair, 6 for one triple, 10 for one quad, 8 for a pair and a
\* triple.  The sum does not depend on the order of the cards, and every order
\* of every hand and board is among the inputs.
C14_ScoreBySummedMultiplicity ==
    (pc = "eliminate" /\ Len(shown) = 1) =>
        LET score == shown[1].score IN
        /\ score = SumF(0..(NumRanks - 1))
        /\ Repeated = {} => score = 0
        /\ \A r \in Repeated : Repeated = {r} => score = F(Multiplicity(r))
        /\ \A a, b \in Repeated :
               (Repeated = {a, b} /\ Multiplicity(a) = 2 /\ Multiplicity(b) = 3) => score = 8

\* A hand was scored that holds a pair and a separate triple, the pair not in
\* the hole cards alone.
C14_Witness ==
    /\ pc = "eliminate"
    /\ Len(shown) = 1
    /\ Rank(players[1].hand[1]) # Rank(players[1].hand[2])
    /\ \E a, b \in Repeated : Repeated = {a, b} /\ Multiplicity(a) = 2 /\ Multiplicity(b) = 3
    /\ shown[1].score = 8

\* betInter has just run; the roster players it found not folded.
AfterBetInter == pc \in {"community", "showdown"}
Active == {i \in 1..numPlayers : ~players[i].folded}

\* The entries for nm2 among those the latest betInter call put in nm1's list.
EntriesFor(nm1, nm2) ==
    IF nm1 \in DOMAIN adjList
      THEN {k \in 1..Len(adjList[nm1]) : adjList[nm1][k][1] = nm2}
      ELSE {}

\* C15 as stated: after a betting round with k players not folded the graph
\* holds exactly k * (k - 1) entries.
C15_GraphHoldsPairs ==
    AfterBetInter =>
        adjOlder + Entries(adjList) = Cardinality(Active) * (Cardinality(Active) - 1)

\* C15 as amended: the betInter call after a betting round with k players not
\* folded adds exactly k * (k - 1) entries to the graph, one in each of the two
\* lists of every pair of them, weighted by currentBet.
C15_RoundAddsPairs ==
    AfterBetInter =>
        /\ Entries(adjList) = Cardinality(Active) * (Cardinality(Active) - 1)
        /\ \A i, j \in Active :
               i # j =>
                   /\ Cardinality(EntriesFor(players[i].name, players[j].name)) = 1
                   /\ \A k \in EntriesFor(players[i].name, players[j].name) :
                          adjList[players[i].name][k][2] = currentBet

\* A later round ends with two of three players not folded, a wager standing
\* and entries of earlier rounds in the graph.
C15_Witness ==
    /\ AfterBetInter
    /\ numPlayers = 3
    /\ Cardinality(Active) = 2
    /\ adjOlder > 0
    /\ currentBet > 0

\* C16: a hand begins only with more than one roster player holding chips, the
\* loop ends by its condition only with at most one, and gameLoop stops in no
\* way other than that or the user's 'n': never by a failing deal.
C16_LoopStopsByCountOrUser ==
    /\ (pc = "deal" /\ iter = 0) => WithChips > 1
    /\ pc = "over" => WithChips <= 1
    /\ pc \notin {"loop", "deal", "bet", "community", "showdown", "eliminate", "sort",
                  "continue", "save"}
           => pc \in {"over", "exit"}

\* No balance is below zero.
NonNegative ==
    /\ \A i \in 1..Len(players) : players[i].chips >= 0
    /\ pot >= 0
    /\ currentBet >= 0

\* A human types Bet or Raise with more than the chips held: the step wagers
\* exactly those chips.
BetBeyondChips ==
    \A w \in {"Bet", "Raise"} : \A n \in BetAmounts :
        (HumanTurn /\ n > Front.chips /\ Turn(HumanInput(w, n))) =>
            /\ players'[Head(turnOrder) + 1].chips = 0
            /\ pot' = pot + Front.chips
            /\ actionHistory'[Len(actionHistory')].amount = Front.chips

\* C17: chips, pot and currentBet are never negative, whatever bots and humans
\* do, and a human Bet or Raise for more than the player's chips wagers exactly
\* the player's chips.
C17_NeverNegative == [](NonNegative) /\ [][BetBeyondChips]_vars

\* A human has staked everything on a bet typed larger than the chips held.
C17_Witness ==
    /\ pc = "bet"
    /\ \E k \in 1..Len(actionHistory) : \E i \in 1..numPlayers :
           /\ actionHistory[k].action = "bets"
           /\ actionHistory[k].amount \notin BetAmounts
           /\ actionHistory[k].name = players[i].name
           /\ ~IsBot(players[i].name)
           /\ players[i].chips = 0

\* C18: when a betting round begins, currentBet is 0 and actionHistory (the
\* lines of earlier rounds and hands included) is empty.
C18_RoundStateFresh ==
    (pc = "bet" /\ iter = 0) =>
        /\ currentBet = 0
        /\ historyOlder + Len(actionHistory) = 0

\* The lines of the round that name nm.
LinesOf(nm) == SelectSeq(actionHistory, LAMBDA line : line.name = nm)

\* C19: at the end of a betting round every player who acted in it and has not
\* folded has wagered at least currentBet in it, or has no chips left.
C19_ActiveMatchedBet ==
    RoundOver =>
        \A k \in 1..Len(turnLog) :
            LET p == players[turnLog[k] + 1] IN
            ~p.folded => (Wagered(LinesOf(p.name)) >= currentBet \/ p.chips = 0)

\* The name begins with "Bot".
BeginsWithBot(nm) == Len(nm) >= Len(Bot) /\ SubSeq(nm, 1, Len(Bot)) = Bot

\* The words that end the human prompt loop.
Words == {"Bet", "Raise", "Call", "Check", "Fold"}

\* C20: for the player whose turn it is, takeAction is the bot heuristic when
\* the name begins with "Bot" and the human prompt for every other name.
C20_BotByPrefix ==
    (pc = "bet" /\ turnOrder # <<>> /\ ~Front.folded) =>
        \A r \in 0..3 : \A w \in Words : \A n \in BetAmounts :
            takeAction(Front, currentBet, pot, actionHistory, communityCards,
                       communityIndex, [rnd |-> r, word |-> w, typed |-> n])
            = IF BeginsWithBot(Front.name)
                THEN BotAction(Front, currentBet, pot, actionHistory, communityCards,
                               communityIndex, r)
                ELSE HumanAction(Front, currentBet, pot, actionHistory, w, n)

\* The slot whose turn it is, and whether the bot heuristic finds its hand
\* strong.
Actor == Head(turnOrder) + 1
Strong(p) == evaluateHandStrength(p, communityCards, communityIndex) > StrengthThreshold

\* What a wager of w by the player whose turn it is does, and no more.
Wagers(w) ==
    /\ currentBet' = IF w > currentBet THEN w ELSE currentBet
    /\ pot' = pot + w
    /\ players' = [players EXCEPT ![Actor].chips = @ - w]
    /\ Len(actionHistory') = Len(actionHistory) + 1
    /\ SubSeq(actionHistory', 1, Len(actionHistory)) = actionHistory

\* C21: a bot's raise wagers min(50, chips) and a human's Bet or Raise wagers
\* min(amount typed, chips); the wager becomes currentBet when it exceeds it,
\* leaves the actor's chips for the pot, adds one record to actionHistory and
\* changes nothing else of any player.
C21_RaiseOrBet ==
    [][/\ (BotTurn /\ Turn(BotInput(0))) => Wagers(Min(BotBet, Front.chips))
       /\ \A w \in {"Bet", "Raise"} : \A n \in BetAmounts :
              (HumanTurn /\ Turn(HumanInput(w, n))) => Wagers(Min(n, Front.chips))]_vars

\* A bet has been made that did not exceed currentBet and left it as it was.
C21_Witness ==
    /\ pc = "bet"
    /\ actionHistory # <<>>
    /\ actionHistory[Len(actionHistory)].action = "bets"
    /\ actionHistory[Len(actionHistory)].amount > 0
    /\ actionHistory[Len(actionHistory)].amount < currentBet

\* A call by the player whose turn it is: a bot's case 1 or the word a human
\* types.
BotCalls == BotTurn /\ ~Strong(Front) /\ Turn(BotInput(1))
HumanSaysCall == HumanTurn /\ Turn(HumanInput("Call", 0))

\* What the statement promises of a call.
CallEffects ==
    IF Front.chips >= currentBet
    THEN /\ players' = [players EXCEPT ![Actor].chips = @ - currentBet]
         /\ pot' = pot + currentBet
         /\ currentBet' = currentBet
    ELSE /\ players' = players
         /\ pot' = pot
         /\ currentBet' = currentBet
         /\ actionHistory' = Append(actionHistory, Line(Front.name, "checks", 0))

\* C22: a call by a player with at least currentBet chips moves exactly
\* currentBet chips to the pot; a call by a player with fewer moves no chips,
\* leaves pot and currentBet alone and is recorded in actionHistory as a check,
\* for bots and for humans alike.
C22_Call ==
    [][(BotCalls \/ HumanSaysCall) => CallEffects]_vars

\* A bluff by the bot whose turn it is, and the lines that record bluffs.
BotBluffs == BotTurn /\ ~Strong(Front) /\ Turn(BotInput(3))
BluffLines ==
    {i \in 1..Len(actionHistory) : actionHistory[i].action = "bluffs with"}

\* C23: only a player takeAction automates ever bluffs; a bluff by a bot with
\* at least currentBet + 20 chips raises currentBet by 20, moves 20 chips from
\* the bot to the pot and adds one record, and a bluff by a bot with fewer
\* changes no chips, pot, currentBet, folded flag or record.
C23_Bluff ==
    /\ [](\A i \in BluffLines : IsBot(actionHistory[i].name))
    /\ [][BotBluffs =>
            IF Front.chips >= currentBet + BluffAmount
            THEN /\ currentBet' = currentBet + BluffAmount
                 /\ pot' = pot + BluffAmount
                 /\ players' = [players EXCEPT ![Actor].chips = @ - BluffAmount]
                 /\ actionHistory' =
                        Append(actionHistory, Line(Front.name, "bluffs with", BluffAmount))
            ELSE /\ players' = players
                 /\ pot' = pot
                 /\ currentBet' = currentBet
                 /\ actionHistory' = actionHistory]_vars

\* A bot has bluffed on top of a bet already standing.
C23_Witness ==
    /\ pc = "bet"
    /\ actionHistory # <<>>
    /\ actionHistory[Len(actionHistory)].action = "bluffs with"
    /\ currentBet > BluffAmount

\* The step in which takeAction runs on the record at the front of the queue,
\* the names of the roster players who have folded, and the part of a hand
\* from its first betting round to its showdown.
TurnTaken ==
    /\ pc = "bet"
    /\ turnOrder # <<>>
    /\ turnLog' = Append(turnLog, Head(turnOrder))
FoldedNames == {players[i].name : i \in {j \in 1..numPlayers : players[j].folded}}
InHand == pc \in {"bet", "community", "showdown"}

\* No player who has folded is given a turn.
FoldedTakesNoTurn == TurnTaken => Front.name \notin FoldedNames

\* The record of a roster player who has folded keeps its chips and its win
\* counters to the end of the hand, so it wagers nothing and wins no showdown.
FoldedRecordUntouched ==
    InHand => \A i \in 1..numPlayers : players[i].folded => players'[i] = players[i]

\* The betInter call at the end of a round records nothing for a player who
\* has folded.
FoldedNotRecorded ==
    (pc = "bet" /\ pc' # "bet") =>
        \A nm \in FoldedNames :
            /\ nm \notin DOMAIN adjList'
            /\ \A other \in DOMAIN adjList' :
                   \A k \in 1..Len(adjList'[other]) : adjList'[other][k][1] # nm

\* Only the deal clears a folded flag.
FoldedUntilDeal ==
    pc # "deal" =>
        \A i \in 1..numPlayers' : players'[i].name \in FoldedNames => players'[i].folded

\* C24: a roster player who has folded takes no further action in the hand,
\* keeps the same chips, adds nothing to the pot, is left out of the
\* interactions recorded and wins no showdown, and the folded flag is cleared
\* only by the deal of the next hand.
C24_FoldedStaysOut ==
    [][/\ FoldedTakesNoTurn
       /\ FoldedRecordUntouched
       /\ FoldedNotRecorded
       /\ FoldedUntilDeal]_vars

\* C25: a bot whose strength score over its hole cards and the community cards
\* shown exceeds 5 raises or bets min(50, chips) in its turn, whatever rand()
\* gives: it does not fold, call, check or bluff.
C25_StrongBotRaises ==
    [][(BotTurn /\ Strong(Front) /\ TurnTaken) =>
          /\ Wagers(Min(BotBet, Front.chips))
          /\ actionHistory'[Len(actionHistory')] =
                 Line(Front.name,
                      IF Min(BotBet, Front.chips) > currentBet THEN "raises to" ELSE "bets",
                      Min(BotBet, Front.chips))]_vars

\* A bot holding a strong hand has just raised.
C25_Witness ==
    /\ pc = "bet"
    /\ turnLog # <<>>
    /\ IsBot(players[turnLog[Len(turnLog)] + 1].name)
    /\ Strong(players[turnLog[Len(turnLog)] + 1])
    /\ actionHistory # <<>>
    /\ actionHistory[Len(actionHistory)].name = players[turnLog[Len(turnLog)] + 1].name
    /\ actionHistory[Len(actionHistory)].action = "raises to"

\* The number of community cards shown during each betting round.
ShownInRound == <<0, 3, 4, 5>>

\* The steps of a hand in the order of the loop body: the place a step leaves
\* and the place it reaches.
HandOrder ==
    CASE pc = "loop" -> \/ pc' = "deal" /\ communityIndex' = 0
                        \/ pc' = "over"
      [] pc = "deal" -> \/ pc' = "deal"
                        \/ pc' = "bet" /\ round' = 1
                        \/ pc' = "error"
      [] pc = "bet" -> \/ pc' = "bet" /\ round' = round
                       \/ round < 4 /\ pc' = "community" /\ round' = round
                       \/ round = 4 /\ pc' = "showdown"
      [] pc = "community" -> \/ /\ pc' = "bet"
                                /\ round' = round + 1
                                /\ communityIndex' = communityIndex + Reveal
                             \/ pc' = "error"
      [] pc = "showdown" -> pc' = "eliminate"
      [] pc = "eliminate" -> pc' = "sort"
      [] pc = "sort" -> pc' = "continue"
      [] pc = "continue" -> pc' \in {"save", "exit"}
      [] pc = "save" -> pc' = "loop"
      [] OTHER -> FALSE

\* C26: every hand runs shuffle, deal, round 1, flop, round 2, turn, round 3,
\* river, round 4, showdown, elimination, re-sort in that order; 0, 3, 4 and 5
\* community cards are shown during rounds 1 to 4, never more than 5, and
\* exactly 5 at showdown, in the first hand and in every later one.
C26_HandOrder ==
    /\ [](/\ communityIndex <= CommunitySize
          /\ pc = "bet" => communityIndex = ShownInRound[round]
          /\ pc = "showdown" => communityIndex = CommunitySize)
    /\ [][HandOrder]_vars

\* A hand after the first has reached its showdown.
C26_Witness ==
    /\ handNo >= 2
    /\ pc = "showdown"
    /\ communityIndex = CommunitySize

\* The line displayPlayers prints for a player, and the places it stands at in
\* what was printed.
RankingLine(p) == [name |-> p.name, chips |-> p.chips]
PrintedAt(p) == {k \in 1..Len(printed) : printed[k] = RankingLine(p)}

\* C27: whatever the order of the insertions and however many players hold the
\* same chips, displayPlayers prints every inserted player exactly once, in
\* non-increasing order of chips.
C27_RankingDescends ==
    pc = "ranked" =>
        /\ Len(printed) = numPlayers
        /\ \A i \in 1..numPlayers : Cardinality(PrintedAt(players[i])) = 1
        /\ \A k \in 1..(Len(printed) - 1) : printed[k].chips >= printed[k + 1].chips

\* A roster that was not in order, with two players on the same chips, has
\* been displayed.
C27_Witness ==
    /\ pc = "ranked"
    /\ numPlayers = MaxTreePlayers
    /\ players[1].chips < players[2].chips
    /\ players[2].chips = players[3].chips
    /\ players[4].chips > players[3].chips

\* The chips of players[0..n) of a roster.
RECURSIVE SumChips(_, _)
SumChips(ps, n) == IF n = 0 THEN 0 ELSE ps[n].chips + SumChips(ps, n - 1)

\* The chips in play: the pot and the chips of the active roster.
ChipsInPlay == pot + SumChips(players, numPlayers)

\* C28: the pot and the chips of the roster players together always make the
\* total the roster held when gameLoop started: no step creates or destroys
\* chips.
C28_ChipsConserved ==
    [][ChipsInPlay' = ChipsInPlay]_vars

\* C29: every index in the turn queue is that of a slot of the active roster,
\* also after elimination has compacted the roster and mergeSort has reordered
\* it, and takeAction never runs on a record outside players[0..numPlayers).
C29_QueueInRoster ==
    /\ [](\A k \in 1..Len(turnOrder) : turnOrder[k] < numPlayers)
    /\ [][TurnTaken => Head(turnOrder) < numPlayers]_vars

\* The places of the loop after the elimination step of a hand, and the
\* players the lines after the loop announce as winners.
AfterElimination == handNo >= 1 /\ pc \in {"sort", "continue", "save", "loop", "over", "exit"}
Announced == {i \in 1..numPlayers : players[i].chips > 0}

\* C30: in a game begun with two or more players who all hold chips, the
\* roster holds at least one player after the elimination step of every hand,
\* and when the loop ends because fewer than two players hold chips, exactly
\* one roster player holds chips and is announced as the winner.
C30_OneWinner ==
    /\ AfterElimination => numPlayers >= 1
    /\ pc = "over" => Cardinality(Announced) = 1

\* The loop has ended by its chip count with one player left of three.
C30_Witness ==
    /\ pc = "over"
    /\ numPlayers = 1
    /\ Len(players) = 3
    /\ players[1].chips > 0

\* gameLoop has ended: the while condition failed, the user left at the
\* continue prompt, or dealCard threw with the deck used up.
Ended == pc \in {"over", "exit", "error"}

\* C31: every run of gameLoop ends, by Game Over, by the user's exit or by the
\* deck running out, whatever the players choose at their prompts: the hands
\* of a game are fewer than MaxPassiveHands, the bound the model places on
\* them, so that bound never ends a game.
C31_GameEnds ==
    /\ <>Ended
    /\ [](pc = "continue" => handNo < MaxPassiveHands)

\* A game has been played on until the deck ran out in its last possible hand.
C31_Witness ==
    /\ pc = "error"
    /\ handNo = MaxPassiveHands

====
